---- MODULE Spec2Model ----
(***************************************************************************)
(* Model of bzt/modules/locustio.py: SlavesReader (the join buffer that    *)
(* merges the per-second statistics reported by locust slaves) and         *)
(* LocustIOExecutor.post_process.                                          *)
(*                                                                         *)
(* The slaves' file is a sequence of characters.  A timestamp key of the   *)
(* JSON maps is the decimal text of a natural number; the model holds the  *)
(* number and computes the length of its text with str_len, so int(key)    *)
(* is the number itself and len(key) is str_len(key).                      *)
(***************************************************************************)
EXTENDS Integers, Sequences, FiniteSets, TLC

\* ------------------------------------------------------------ bounds
MaxLines == 2        \* lines the writers append during one run
ReadCap == 6         \* characters one fds.read() returns at most (1024 * 1024 in the code)

\* ------------------------------------------------------------ data
None == -1
NL == "\n"
EmptyFn == [x \in {} |-> 0]

Put(f, k, v) == [x \in (DOMAIN f) \cup {k} |-> IF x = k THEN v ELSE f[x]]

Remove(f, k) == [x \in (DOMAIN f) \ {k} |-> f[x]]

Min(a, b) == IF a <= b THEN a ELSE b

\* One label entry of a snapshot; has_rps = FALSE is an entry that lacks the
\* 'num_reqs_per_sec' field.  num_requests and total_response_time (in ms)
\* are the label's cumulative counters.
Item(name, rps) ==
  [name |-> name, has_rps |-> TRUE, rps |-> rps,
   num_requests |-> 4, total_response_time |-> 6000]

\* a label entry whose cumulative num_requests is 0
ItemIdle(name, rps) ==
  [name |-> name, has_rps |-> TRUE, rps |-> rps,
   num_requests |-> 0, total_response_time |-> 0]

ItemNoRps(name) ==
  [name |-> name, has_rps |-> FALSE, rps |-> EmptyFn,
   num_requests |-> 4, total_response_time |-> 6000]

RTWorkers == <<"A", "B", "C">>

RTSeconds == 10..15

\* per-second count worker number w reports for second t in the round trip
RTCount(w, t) == w + (t - 10)

\* The decoded JSON objects the lines of the file can carry, by payload.
Snap ==
  [p \in {"1", "2", "3", "4", "5", "r1", "r2", "r3"} |->
    CASE p = "1" -> [client_id |-> "A", user_count |-> 1,
                     stats |-> <<Item("a", (99 :> 1) @@ (100 :> 2))>>]
      [] p = "2" -> [client_id |-> "B", user_count |-> 2,
                     stats |-> <<ItemIdle("a", (100 :> 3))>>]
      [] p = "3" -> [client_id |-> "A", user_count |-> 3,
                     stats |-> <<Item("a", (100 :> 5)), Item("b", (101 :> 1))>>]
      [] p = "4" -> [client_id |-> "B", user_count |-> 2,
                     stats |-> <<Item("", (100 :> 7)), Item("a", (100 :> 1))>>]
      [] p = "5" -> [client_id |-> "B", user_count |-> 2,
                     stats |-> <<Item("a", (100 :> 1)), ItemNoRps("b")>>]
      [] p = "r1" -> [client_id |-> RTWorkers[1], user_count |-> 1,
                      stats |-> <<Item("a", [t \in RTSeconds |-> RTCount(1, t)])>>]
      [] p = "r2" -> [client_id |-> RTWorkers[2], user_count |-> 1,
                      stats |-> <<Item("a", [t \in RTSeconds |-> RTCount(2, t)])>>]
      [] p = "r3" -> [client_id |-> RTWorkers[3], user_count |-> 1,
                      stats |-> <<Item("a", [t \in RTSeconds |-> RTCount(3, t)])>>]]

\* payloads the writers of the main specification use; "x" is a line that is
\* not JSON
Lines == {"1", "2", "3", "4", "5", "x"}

RTLines == {"r1", "r2", "r3"}

\* the text of one line of the file
Text(l) == IF l \in DOMAIN Snap THEN <<"{", l, "}", NL>> ELSE <<l, NL>>

\* json.loads(_line): the payload of a well-formed line, "ValueError" otherwise
json_loads(line) ==
  IF /\ Len(line) = 4
     /\ line[1] = "{"
     /\ line[2] \in DOMAIN Snap
     /\ line[3] = "}"
     /\ line[4] = NL
  THEN line[2]
  ELSE "ValueError"

\* len(key) of the decimal text of a timestamp
RECURSIVE str_len(_)
str_len(k) == IF k < 10 THEN 1 ELSE 1 + str_len(k \div 10)

\* sorted(keys, key=int)
RECURSIVE sorted(_)
sorted(S) ==
  IF S = {} THEN <<>>
  ELSE LET m == CHOOSE x \in S : \A y \in S : x <= y
       IN <<m>> \o sorted(S \ {m})

\* ------------------------------------------------------------ join buffer
\* join_buffer maps a timestamp to a map from client_id to the payload of the
\* snapshot held for it (the decoded object is Snap[payload]).

\* fault variant: the entry of the timestamp is created anew on every write
\* (the test 'timestamp not in self.join_buffer' is missing)
fill_item_mut(jb, T, d) ==
  [t \in (DOMAIN jb) \cup T |->
     IF t \in T THEN Put(EmptyFn, Snap[d].client_id, d) ELSE jb[t]]

\* join_buffer[timestamp][data['client_id']] = data for every timestamp of T
\* (the inner loop of fill_join_buffer over one stats item)
fill_item(jb, T, d) ==
  [t \in (DOMAIN jb) \cup T |->
     IF t \in T
     THEN Put(IF t \in DOMAIN jb THEN jb[t] ELSE EmptyFn, Snap[d].client_id, d)
     ELSE jb[t]]

\* fill_join_buffer(data) from stats item i on: the buffer when the loop ends,
\* and "KeyError" when an item has no 'num_reqs_per_sec' (the items before it
\* have been stored by then)
RECURSIVE fill_from(_, _, _)
fill_from(jb, d, i) ==
  IF i > Len(Snap[d].stats) THEN [jb |-> jb, err |-> "ok"]
  ELSE IF ~Snap[d].stats[i].has_rps THEN [jb |-> jb, err |-> "KeyError"]
  ELSE fill_from(fill_item(jb, DOMAIN Snap[d].stats[i].rps, d), d, i + 1)

\* fault variant: a snapshot already held for (timestamp, client_id) is kept
fill_join_buffer_mut(jb, d) ==
  LET r == fill_from(jb, d, 1)
  IN [jb |-> [t \in DOMAIN r.jb |->
                IF t \in DOMAIN jb /\ Snap[d].client_id \in DOMAIN jb[t]
                THEN jb[t] ELSE r.jb[t]],
      err |-> r.err]

fill_join_buffer(jb, d) == fill_from(jb, d, 1)

\* the timestamps whose key passes the test of get_max_full_ts
full_keys(jb, n) == {k \in DOMAIN jb : str_len(k) >= n}

\* variant: the test counts the client ids held for the key, len(join_buffer[key])
get_max_full_ts_mut(jb, n) ==
  LET F == {k \in DOMAIN jb : Cardinality(DOMAIN jb[k]) >= n}
  IN IF F = {} THEN None ELSE CHOOSE k \in F : \A j \in F : j <= k

\* get_max_full_ts: the greatest key with len(key) >= self.num_slaves
get_max_full_ts(jb, n) ==
  LET F == full_keys(jb, n)
  IN IF F = {} THEN None ELSE CHOOSE k \in F : \A j \in F : j <= k

\* ------------------------------------------------------------ merging
\* A KPISet is [samples, conc, sum_rt]; the kpis of a point map label names
\* to KPISets.  sum_rt is a response-time sum in seconds, kept as the exact
\* fraction num / den in lowest terms (the rounding of the floats is not
\* modelled).
KPISet == [samples |-> 0, conc |-> 0, sum_rt |-> [num |-> 0, den |-> 1]]

RECURSIVE gcd(_, _)
gcd(a, b) == IF b = 0 THEN a ELSE gcd(b, a % b)

\* the number num / den
frac(num, den) == [num |-> num \div gcd(num, den), den |-> den \div gcd(num, den)]

\* the sum of two response-time sums
rt_add(a, b) == frac(a.num * b.den + b.num * a.den, a.den * b.den)

\* overall.merge_kpis(kpiset), no source id: sample counts and response-time
\* sums add, the concurrency is that of the one source
merge_kpis(dst, src) ==
  [samples |-> dst.samples + src.samples,
   conc |-> IF src.conc # 0 THEN src.conc ELSE dst.conc,
   sum_rt |-> rt_add(dst.sum_rt, src.sum_rt)]

\* if item['num_requests']
\* fault variant: the average is computed for every label
has_requests_mut(item) == TRUE

has_requests(item) == item.num_requests # 0

\* avg_rt = (item['total_response_time'] / 1000.0) / item['num_requests'];
\* ok = FALSE is the ZeroDivisionError of a division by 0
avg_rt(item) ==
  IF item.num_requests = 0 THEN [ok |-> FALSE, val |-> KPISet.sum_rt]
  ELSE [ok |-> TRUE,
        val |-> frac(item.total_response_time, 1000 * item.num_requests)]

\* point_from_locust from stats item i on; cur is point[CURRENT] so far
RECURSIVE point_from(_, _, _, _, _)
point_from(ts, d, i, cur, overall) ==
  IF i > Len(Snap[d].stats) THEN [err |-> "ok", kpis |-> Put(cur, "", overall)]
  ELSE LET item == Snap[d].stats[i] IN
    IF ~item.has_rps THEN [err |-> "KeyError", kpis |-> cur]
    ELSE IF ts \notin DOMAIN item.rps THEN point_from(ts, d, i + 1, cur, overall)
    ELSE IF has_requests(item) /\ ~avg_rt(item).ok
    THEN [err |-> "ZeroDivisionError", kpis |-> cur]
    ELSE LET kpiset ==
               [samples |-> item.rps[ts], conc |-> Snap[d].user_count,
                sum_rt |-> IF has_requests(item)
                           THEN frac(item.rps[ts] * avg_rt(item).val.num,
                                     avg_rt(item).val.den)
                           ELSE KPISet.sum_rt]
         IN point_from(ts, d, i + 1, Put(cur, item.name, kpiset),
                       merge_kpis(overall, kpiset))

\* fault variant: the loop over data['stats'] skips the first item
point_from_locust_mut(ts, sid, d) == point_from(ts, d, 2, EmptyFn, KPISet)

point_from_locust(ts, sid, d) == point_from(ts, d, 1, EmptyFn, KPISet)

\* point.merge_point(src): per label, sample counts and response-time sums
\* add and the concurrencies of distinct sources add
merge_point(dst, src) ==
  [l \in (DOMAIN dst) \cup (DOMAIN src) |->
     IF l \notin DOMAIN src THEN dst[l]
     ELSE IF l \notin DOMAIN dst THEN src[l]
     ELSE [samples |-> dst[l].samples + src[l].samples,
           conc |-> dst[l].conc + src[l].conc,
           sum_rt |-> rt_add(dst[l].sum_rt, src[l].sum_rt)]]

\* the loop of merge_datapoints over sec_data: the DataPoint of one second
RECURSIVE merge_sec(_, _, _, _)
merge_sec(ts, sec_data, sids, kpis) ==
  IF sids = {} THEN [err |-> "ok", point |-> [ts |-> ts, kpis |-> kpis]]
  ELSE LET sid == CHOOSE s \in sids : TRUE
           p == point_from_locust(ts, sid, sec_data[sid])
       IN IF p.err # "ok" THEN [err |-> p.err, point |-> [ts |-> ts, kpis |-> kpis]]
          ELSE merge_sec(ts, sec_data, sids \ {sid}, merge_point(kpis, p.kpis))

\* merge_datapoints(max_full_ts) from position i of the sorted keys on: the
\* buffer left, the points yielded, and the error that ended the generator
RECURSIVE merge_from(_, _, _, _, _)
merge_from(jb, keys, i, max_full_ts, out) ==
  IF i > Len(keys) THEN [jb |-> jb, out |-> out, err |-> "ok"]
  ELSE IF keys[i] <= max_full_ts
  THEN LET r == merge_sec(keys[i], jb[keys[i]], DOMAIN jb[keys[i]], EmptyFn)
       IN IF r.err # "ok"
          THEN [jb |-> Remove(jb, keys[i]), out |-> out, err |-> r.err]
          ELSE merge_from(Remove(jb, keys[i]), keys, i + 1, max_full_ts,
                          Append(out, r.point))
  ELSE merge_from(jb, keys, i + 1, max_full_ts, out)

merge_datapoints(jb, max_full_ts) ==
  merge_from(jb, sorted(DOMAIN jb), 1, max_full_ts, <<>>)

\* ------------------------------------------------------------ reading
\* read_buffer.index("\n")
RECURSIVE index_from(_, _, _)
index_from(s, c, i) == IF s[i] = c THEN i ELSE index_from(s, c, i + 1)

index(s, c) == index_from(s, c, 1)

\* "\n" in self.read_buffer
has_line(rb) == \E i \in 1..Len(rb) : rb[i] = NL

\* _line = self.read_buffer[:self.read_buffer.index("\n") + 1]
\* fault variant: the whole buffer is taken as the line
first_line_mut(rb) == rb

first_line(rb) == SubSeq(rb, 1, index(rb, NL))

\* self.read_buffer = self.read_buffer[len(_line):]
\* fault variant: one character more than the line is dropped
rest_of_mut(rb, line) == SubSeq(rb, Len(line) + 2, Len(rb))

rest_of(rb, line) == SubSeq(rb, Len(line) + 1, Len(rb))

\* fault variant of the while loop: a line that json.loads rejects stays in
\* read_buffer
RECURSIVE read_lines_mut(_, _, _)
read_lines_mut(rb, jb, dec) ==
  IF ~has_line(rb) THEN [rb |-> rb, jb |-> jb, dec |-> dec, err |-> "ok"]
  ELSE LET line == first_line(rb)
           rest == rest_of(rb, line)
           data == json_loads(line)
       IN IF data = "ValueError"
          THEN [rb |-> rb, jb |-> jb, dec |-> Append(dec, line), err |-> "ValueError"]
          ELSE LET r == fill_join_buffer(jb, data)
               IN IF r.err # "ok"
                  THEN [rb |-> rest, jb |-> r.jb, dec |-> Append(dec, line), err |-> r.err]
                  ELSE read_lines_mut(rest, r.jb, Append(dec, line))

\* the while loop of _calculate_datapoints: the lines are cut off read_buffer
\* one by one and decoded; an exception of json.loads or fill_join_buffer ends
\* the loop with the line already removed from read_buffer
RECURSIVE read_lines(_, _, _)
read_lines(rb, jb, dec) ==
  IF ~has_line(rb) THEN [rb |-> rb, jb |-> jb, dec |-> dec, err |-> "ok"]
  ELSE LET line == first_line(rb)
           rest == rest_of(rb, line)
           data == json_loads(line)
       IN IF data = "ValueError"
          THEN [rb |-> rest, jb |-> jb, dec |-> Append(dec, line), err |-> "ValueError"]
          ELSE LET r == fill_join_buffer(jb, data)
               IN IF r.err # "ok"
                  THEN [rb |-> rest, jb |-> r.jb, dec |-> Append(dec, line), err |-> r.err]
                  ELSE read_lines(rest, r.jb, Append(dec, line))

\* if not self.fds
\* fault variant: the file is opened again on every call
need_open_mut(f) == TRUE

need_open(f) == f = "None"

\* __open_file: the handle after the call
open_file(file_exists) == IF file_exists THEN "open" ELSE "None"

\* the labels ResultsProvider.datapoints merges into self.cumulative
RECURSIVE merge_to_cumulative(_, _)
merge_to_cumulative(cum, out) ==
  IF out = <<>> THEN cum
  ELSE merge_to_cumulative(cum \cup DOMAIN out[1].kpis, Tail(out))

\* the run is in master mode (prepare: execution "master")
is_master == TRUE

\* post_process: the reader is a SlavesReader, so no_local_results is false
\* fault variant: the test of self.reader.cumulative is inverted
post_process_mut(master, cum) ==
  IF master /\ cum # {} THEN "RuntimeWarning" ELSE "ok"

post_process(master, cum) ==
  IF master /\ cum = {} THEN "RuntimeWarning" ELSE "ok"

\* where a writer's flush can cut the line l: in its middle, or not at all
Cuts(l) == {Len(Text(l)) \div 2, Len(Text(l))}

\* ------------------------------------------------------------ state
VARIABLES
  exists,        \* os.path.exists(self.filename)
  file,          \* the characters of the slaves' file
  wbuf,          \* characters of the line being written that are not flushed yet
  nlines,        \* lines the writers have begun
  num_slaves,    \* self.num_slaves
  fds,           \* self.fds: "None" or "open"
  pos,           \* the read position of self.fds
  read_buffer,   \* self.read_buffer
  join_buffer,   \* self.join_buffer
  cumulative,    \* self.cumulative (the labels it holds)
  emitted,       \* history: the points yielded over the reader's lifetime
  decoded,       \* history: the lines passed to json.loads
  raised,        \* history: polls that ended with an exception
  last,          \* history: the latest poll (see Poll)
  phase,         \* "run", "final" after the final pass, "done" after post_process
  post_result    \* what post_process did: "none", "ok", "RuntimeWarning"

vars == <<exists, file, wbuf, nlines, num_slaves, fds, pos, read_buffer,
          join_buffer, cumulative, emitted, decoded, raised, last, phase,
          post_result>>

NoPoll == [final |-> FALSE, err |-> "none", max |-> None, pre |-> EmptyFn,
           out |-> <<>>, waited |-> FALSE]

\* SlavesReader.__init__ with num_slaves = n; the artifact file is not there yet.
\* Every key of the model has two or three characters, so one expected slave
\* behaves as two do.
InitWith(n) ==
  /\ exists = FALSE
  /\ file = <<>>
  /\ wbuf = <<>>
  /\ nlines = 0
  /\ num_slaves = n
  /\ fds = "None"
  /\ pos = 0
  /\ read_buffer = <<>>
  /\ join_buffer = EmptyFn
  /\ cumulative = {}
  /\ emitted = <<>>
  /\ decoded = <<>>
  /\ raised = 0
  /\ last = NoPoll
  /\ phase = "run"
  /\ post_result = "none"

\* the expected slave counts examined: below, at and above the key lengths
SlaveCounts == {2, 3, 4}

Init == \E n \in SlaveCounts : InitWith(n)

reader_vars == <<num_slaves, fds, pos, read_buffer, join_buffer, cumulative,
                 emitted, decoded, raised, last, phase, post_result>>

\* the locust master creates the file
CreateFile ==
  /\ phase = "run"
  /\ ~exists
  /\ exists' = TRUE
  /\ UNCHANGED <<file, wbuf, nlines>>
  /\ UNCHANGED reader_vars

\* a writer appends the line with payload l; its first k characters reach the
\* file at once, the others stay in the writer's buffer
WriteLine(l, k) ==
  /\ phase = "run"
  /\ exists
  /\ wbuf = <<>>
  /\ nlines < MaxLines
  /\ k \in Cuts(l)
  /\ file' = file \o SubSeq(Text(l), 1, k)
  /\ wbuf' = SubSeq(Text(l), k + 1, Len(Text(l)))
  /\ nlines' = nlines + 1
  /\ UNCHANGED exists
  /\ UNCHANGED reader_vars

\* the rest of the line reaches the file
Flush ==
  /\ phase = "run"
  /\ wbuf # <<>>
  /\ file' = file \o wbuf
  /\ wbuf' = <<>>
  /\ UNCHANGED <<exists, nlines>>
  /\ UNCHANGED reader_vars

\* One call of _calculate_datapoints(final_pass), consumed to its end by
\* ResultsProvider.datapoints.  last records the call: its argument, how it
\* ended, the max_full_ts it computed, the buffer it computed it on, the points
\* it yielded, and whether this or an earlier call found no file to open.
\* The call with final_pass = TRUE is the last one: the aggregator makes it
\* at shutdown.
Poll(final_pass) ==
  /\ phase = "run"
  /\ LET opening == need_open(fds)
         fds1 == IF opening THEN open_file(exists) ELSE fds
         pos0 == IF opening THEN 0 ELSE pos
         pos1 == IF fds1 = "open" THEN Min(Len(file), pos0 + ReadCap) ELSE pos
         rd == IF fds1 = "open"
               THEN read_lines(read_buffer \o SubSeq(file, pos0 + 1, pos1),
                               join_buffer, decoded)
               ELSE [rb |-> read_buffer, jb |-> join_buffer, dec |-> decoded,
                     err |-> "ok"]
         max_full_ts == IF rd.err = "ok" THEN get_max_full_ts(rd.jb, num_slaves)
                        ELSE None
         dr == IF max_full_ts # None THEN merge_datapoints(rd.jb, max_full_ts)
               ELSE [jb |-> rd.jb, out |-> <<>>, err |-> rd.err]
     IN /\ fds' = fds1
        /\ pos' = pos1
        /\ read_buffer' = rd.rb
        /\ decoded' = rd.dec
        /\ join_buffer' = dr.jb
        /\ emitted' = emitted \o dr.out
        /\ cumulative' = merge_to_cumulative(cumulative, dr.out)
        /\ raised' = IF dr.err = "ok" THEN raised ELSE raised + 1
        /\ last' = [final |-> final_pass, err |-> dr.err, max |-> max_full_ts,
                    pre |-> rd.jb, out |-> dr.out,
                    waited |-> (last.waited \/ fds1 = "None")]
  /\ phase' = IF final_pass THEN "final" ELSE phase
  /\ UNCHANGED <<exists, file, wbuf, nlines, num_slaves, post_result>>

\* LocustIOExecutor.post_process at the end of the run
PostProcess ==
  /\ phase \in {"run", "final"}
  /\ phase' = "done"
  /\ post_result' = post_process(is_master, cumulative)
  /\ UNCHANGED <<exists, file, wbuf, nlines, num_slaves, fds, pos, read_buffer,
                 join_buffer, cumulative, emitted, decoded, raised, last>>

Next ==
  \/ CreateFile
  \/ \E l \in Lines : \E k \in Cuts(l) : WriteLine(l, k)
  \/ Flush
  \/ \E f \in BOOLEAN : Poll(f)
  \/ PostProcess

Spec == Init /\ [][Next]_vars

\* ------------------------------------------------------------ round trip
\* Three workers each write one snapshot that reports every second of
\* RTSeconds; the reader expects Len(RTWorkers) slaves.
Written(l) == \E i \in 1..Len(file) : file[i] = l

WriteLineRT(l, k) ==
  /\ phase = "run"
  /\ exists
  /\ wbuf = <<>>
  /\ ~Written(l)
  /\ k \in Cuts(l)
  /\ file' = file \o SubSeq(Text(l), 1, k)
  /\ wbuf' = SubSeq(Text(l), k + 1, Len(Text(l)))
  /\ nlines' = nlines + 1
  /\ UNCHANGED exists
  /\ UNCHANGED reader_vars

InitRT == InitWith(Len(RTWorkers))

NextRT ==
  \/ CreateFile
  \/ \E l \in RTLines : \E k \in Cuts(l) : WriteLineRT(l, k)
  \/ Flush
  \/ \E f \in BOOLEAN : Poll(f)
  \/ PostProcess

SpecRT == InitRT /\ [][NextRT]_vars

\* ------------------------------------------------------------ properties
\* the timestamps of a sequence of points
TsOf(out) == [i \in 1..Len(out) |-> out[i].ts]

\* the entries of a buffer with timestamp above m
Above(jb, m) == [k \in {j \in DOMAIN jb : j > m} |-> jb[k]]

\* the timestamps of a buffer that hold at least n distinct client ids
Contributed(jb, n) == {k \in DOMAIN jb : Cardinality(DOMAIN jb[k]) >= n}

\* C1: the timestamps of the emitted points are strictly increasing over the
\* reader's lifetime, and a timestamp that has been emitted is never in
\* join_buffer again.
C1_EmittedOnce ==
  /\ \A i, j \in 1..Len(emitted) : i < j => emitted[i].ts < emitted[j].ts
  /\ \A i \in 1..Len(emitted) : emitted[i].ts \notin DOMAIN join_buffer

\* C2: the max_full_ts a poll finds is the greatest buffered timestamp that
\* holds num_slaves distinct client ids, none if there is no such timestamp;
\* so a poll yields nothing while no buffered timestamp has that many.
C2_ClosedByContributors ==
  last.err = "ok" =>
    LET F == Contributed(last.pre, num_slaves)
    IN /\ (F = {} => last.max = None /\ last.out = <<>>)
       /\ (F # {} => last.max \in F /\ \A k \in F : k <= last.max)

\* C3: a poll that finds max_full_ts removes every buffered entry with
\* timestamp <= max_full_ts and yields their points in ascending order,
\* one per entry, and leaves the entries above max_full_ts as they were.
C3_DragAlong ==
  last.max # None =>
    /\ TsOf(last.out) = sorted({k \in DOMAIN last.pre : k <= last.max})
    /\ join_buffer = Above(last.pre, last.max)

\* the sample count the three workers report together for second t
RTSum(t) == RTCount(1, t) + RTCount(2, t) + RTCount(3, t)

\* C4: once the three snapshots that cover RTSeconds have been read, the
\* reader has emitted one point per second, in ascending order, whose sample
\* count is the sum of the three workers' counts.
C4_RoundTrip ==
  Len(decoded) = Len(RTWorkers) =>
    /\ TsOf(emitted) = sorted(RTSeconds)
    /\ \A i \in 1..Len(emitted) :
         /\ emitted[i].kpis["a"].samples = RTSum(emitted[i].ts)
         /\ emitted[i].kpis[""].samples = RTSum(emitted[i].ts)

\* C5: a poll that meets a line that is not JSON does not end with the
\* decoder's exception and does not stop before the complete lines behind it:
\* no poll raises ValueError, and no complete line is left in read_buffer.
C5_BadLineSkipped ==
  /\ last.err # "ValueError"
  /\ ~has_line(read_buffer)

\* the concatenation of a sequence of lines
RECURSIVE Flatten(_)
Flatten(ls) == IF ls = <<>> THEN <<>> ELSE ls[1] \o Flatten(Tail(ls))

\* C6: every text passed to json.loads ends with its only newline, and
\* read_buffer is the end of the text read so far, so a fragment without a
\* newline stays there until a later read completes it.
C6_NoFragmentDecoded ==
  /\ \A i \in 1..Len(decoded) :
       /\ decoded[i][Len(decoded[i])] = NL
       /\ \A j \in 1..(Len(decoded[i]) - 1) : decoded[i][j] # NL
  /\ Len(read_buffer) <= pos
  /\ read_buffer = SubSeq(file, pos - Len(read_buffer) + 1, pos)
  /\ (last.err = "ok" => ~has_line(read_buffer))

\* a poll that ended without exception holds a fragment back, lines decoded
C6_Witness ==
  /\ last.err = "ok"
  /\ read_buffer # <<>>
  /\ decoded # <<>>

\* C7: while the file does not exist or is empty the polls yield nothing,
\* raise nothing and leave join_buffer and read_buffer empty, and no handle is
\* opened on a file that does not exist; once the file is open, what has been
\* decoded and what read_buffer holds is the file's text from its first
\* character on.
C7_SourceNotReady ==
  /\ (~exists => fds = "None")
  /\ (file = <<>> =>
        /\ emitted = <<>>
        /\ raised = 0
        /\ last.err \in {"none", "ok"}
        /\ join_buffer = EmptyFn
        /\ read_buffer = <<>>)
  /\ (fds = "open" => Flatten(decoded) \o read_buffer = SubSeq(file, 1, pos))

\* a poll found no file, a later one opened it and decoded its first line
C7_Witness ==
  /\ last.waited
  /\ fds = "open"
  /\ decoded # <<>>
  /\ decoded[1] = SubSeq(file, 1, Len(decoded[1]))

\* the snapshots ingested so far, in the order of their lines
RECURSIVE Ingested(_)
Ingested(ls) ==
  IF ls = <<>> THEN <<>>
  ELSE IF json_loads(ls[1]) = "ValueError" THEN Ingested(Tail(ls))
  ELSE <<json_loads(ls[1])>> \o Ingested(Tail(ls))

\* join_buffer after the snapshots of ds have been ingested in their order
RECURSIVE IngestAll(_, _)
IngestAll(jb, ds) ==
  IF ds = <<>> THEN jb ELSE IngestAll(fill_join_buffer(jb, ds[1]).jb, Tail(ds))

\* the orders a sequence of n snapshots can be ingested in
Perms(n) == {p \in [1..n -> 1..n] : \A i, j \in 1..n : p[i] = p[j] => i = j}

Permuted(ds, p) == [i \in 1..Len(ds) |-> ds[p[i]]]

\* the point (or the exception) the drain makes of second T of the buffer jb
PointOf(jb, T) == merge_sec(T, jb[T], DOMAIN jb[T], EmptyFn)

\* every order of ingesting ds gives the same points as the order of ds
SameInEveryOrder(ds) ==
  \A p \in Perms(Len(ds)) :
    LET jb1 == IngestAll(EmptyFn, ds)
        jb2 == IngestAll(EmptyFn, Permuted(ds, p))
    IN /\ DOMAIN jb1 = DOMAIN jb2
       /\ \A T \in DOMAIN jb1 : PointOf(jb1, T) = PointOf(jb2, T)

\* C8 as claimed: whatever snapshots the reader has ingested, ingesting them
\* in any other order gives the same point for every timestamp, also when
\* two of them come from the same worker.
C8_OrderIndependent == SameInEveryOrder(Ingested(decoded))

\* C8 as amended: when the snapshots the reader has ingested come from
\* pairwise different workers, ingesting them in any other order gives the
\* same point for every timestamp; and while no point has been emitted and
\* no poll has raised, join_buffer is what their ingestion in the order read
\* gives.
C8_OrderIndependentWorkers ==
  LET ds == Ingested(decoded)
  IN /\ (\A i, j \in 1..Len(ds) :
           i # j => Snap[ds[i]].client_id # Snap[ds[j]].client_id)
        => SameInEveryOrder(ds)
     /\ (emitted = <<>> /\ raised = 0) => join_buffer = IngestAll(EmptyFn, ds)

\* the reader has ingested snapshots of two workers and a poll has merged
\* them into the point of a second
C8_Witness ==
  /\ Len(Ingested(decoded)) >= 2
  /\ \E i \in 1..Len(last.out) :
       /\ Cardinality(DOMAIN last.pre[last.out[i].ts]) >= 2
       /\ last.out[i].kpis[""].samples > 0

\* C9: a poll with final_pass = TRUE yields a point for every timestamp in
\* join_buffer and leaves join_buffer empty.
C9_FinalDrain ==
  (last.final /\ last.err = "ok") =>
    /\ TsOf(last.out) = sorted(DOMAIN last.pre)
    /\ join_buffer = EmptyFn

\* C10: post_process raises exactly when the reader has yielded no point by
\* the end of the run, and nothing raises the empty-results condition
\* before post_process runs.
C10_EmptyResults ==
  /\ (phase # "done" => post_result = "none")
  /\ (phase = "done" =>
        /\ post_result \in {"ok", "RuntimeWarning"}
        /\ (post_result = "RuntimeWarning" <=> emitted = <<>>))

\* post_process raised although snapshots were ingested and never drained
C10_Witness ==
  /\ phase = "done"
  /\ post_result = "RuntimeWarning"
  /\ join_buffer # EmptyFn
  /\ decoded # <<>>

\* C11: when a poll has ingested its lines and some buffered timestamp T'
\* holds num_slaves distinct client ids, that poll emits a point for every
\* buffered timestamp T <= T' and none of them stays in join_buffer.
C11_ForwardProgress ==
  last.err = "ok" =>
    \A T1 \in Contributed(last.pre, num_slaves) :
      \A T \in DOMAIN last.pre :
        T <= T1 =>
          /\ \E i \in 1..Len(last.out) : last.out[i].ts = T
          /\ T \notin DOMAIN join_buffer
\* the timestamps that appear in the per-second map of some label of snapshot d
SnapSeconds(d) ==
  UNION {DOMAIN Snap[d].stats[i].rps : i \in 1..Len(Snap[d].stats)}

\* C12: for the buffer the reader holds and any snapshot s, fill_join_buffer(s)
\* stores s under (T, s.client_id) for every timestamp T of a per-second map
\* of s, replacing the snapshot held there; the entries of other workers
\* under T and all other timestamps stay as they were, and nothing is removed.
C12_LastWriteWins ==
  \A d \in DOMAIN Snap :
    LET jb == join_buffer
        r == fill_join_buffer(jb, d).jb
        S == SnapSeconds(d)
        w == Snap[d].client_id
    IN /\ DOMAIN r = (DOMAIN jb) \cup S
       /\ \A T \in S :
            /\ DOMAIN r[T] = (IF T \in DOMAIN jb THEN DOMAIN jb[T] ELSE {}) \cup {w}
            /\ r[T][w] = d
            /\ \A v \in DOMAIN r[T] \ {w} : r[T][v] = jb[T][v]
       /\ \A T \in (DOMAIN jb) \ S : r[T] = jb[T]

\* worker A's second snapshot has replaced its first one for second 100 and
\* the first one is still held for second 99
C12_Witness ==
  /\ Ingested(decoded) = <<"1", "3">>
  /\ DOMAIN join_buffer = {99, 100, 101}
  /\ join_buffer[99]["A"] = "1"
  /\ join_buffer[100]["A"] = "3"

\* the stats items of snapshot d that are named l and report second T
ItemsFor(d, l, T) ==
  {i \in 1..Len(Snap[d].stats) :
     /\ Snap[d].stats[i].name = l
     /\ T \in DOMAIN Snap[d].stats[i].rps}

\* the per-second count snapshot d reports for second T under label l
CountOf(d, l, T) ==
  LET I == ItemsFor(d, l, T)
  IN IF I = {} THEN 0
     ELSE Snap[d].stats[CHOOSE i \in I : \A j \in I : j <= i].rps[T]

\* the named labels the snapshots held in sec_data report for second T
LabelsFor(sec_data, T) ==
  {l \in {"a", "b"} : \E w \in DOMAIN sec_data : ItemsFor(sec_data[w], l, T) # {}}

\* the sum of CountOf over the snapshots held in sec_data for the workers ws
RECURSIVE HeldSum(_, _, _, _)
HeldSum(sec_data, ws, l, T) ==
  IF ws = {} THEN 0
  ELSE LET w == CHOOSE x \in ws : TRUE
       IN CountOf(sec_data[w], l, T) + HeldSum(sec_data, ws \ {w}, l, T)

\* C13: a point a poll emits for second T carries the named labels that the
\* snapshots held in join_buffer[T] at the drain report for T, and for each
\* of them the sum, over the workers held, of the per-second count the
\* worker's held snapshot reports for T under that label.
C13_MergesHeld ==
  \A i \in 1..Len(last.out) :
    LET T == last.out[i].ts
        held == last.pre[T]
        kpis == last.out[i].kpis
    IN /\ (DOMAIN kpis) \ {""} = LabelsFor(held, T)
       /\ \A l \in LabelsFor(held, T) :
            kpis[l].samples = HeldSum(held, DOMAIN held, l, T)

\* one drain has emitted second 99, held for worker A alone, with A's count,
\* and second 100, held for A and B, with the sum of the two counts
C13_Witness ==
  \E i, j \in 1..Len(last.out) :
    /\ last.out[i].ts = 99
    /\ last.pre[99] = ("A" :> "1")
    /\ last.out[i].kpis["a"].samples = 1
    /\ last.out[j].ts = 100
    /\ last.pre[100] = ("A" :> "1") @@ ("B" :> "2")
    /\ last.out[j].kpis["a"].samples = 5

\* the sum of the per-second counts that the stats items i..Len of snapshot d
\* with a non-empty name report for second T
RECURSIVE NamedSum(_, _, _)
NamedSum(d, T, i) ==
  IF i > Len(Snap[d].stats) THEN 0
  ELSE LET item == Snap[d].stats[i]
       IN (IF item.name # "" /\ T \in DOMAIN item.rps THEN item.rps[T] ELSE 0)
          + NamedSum(d, T, i + 1)

\* C14: in the point point_from_locust builds for a snapshot held in the
\* buffer, the sample count of the combined label '' is the sum of the
\* per-second counts of the snapshot's labels with a non-empty name, also
\* when the snapshot carries a label named ''.
C14_OverallOfNamed ==
  \A T \in DOMAIN last.pre :
    \A w \in DOMAIN last.pre[T] :
      LET p == point_from_locust(T, w, last.pre[T][w])
      IN p.err = "ok" => p.kpis[""].samples = NamedSum(last.pre[T][w], T, 1)

\* the greatest element of a set of timestamps, None for the empty set
MaxOrNone(S) == IF S = {} THEN None ELSE CHOOSE k \in S : \A j \in S : j <= k

\* C15: a poll finds as max_full_ts the greatest buffered key with at least
\* num_slaves characters, whatever the number of client ids held; a poll
\* that finds every buffered key to have at least num_slaves characters
\* emits a point for each of them and leaves join_buffer empty; and a poll
\* that finds every buffered key shorter than num_slaves emits nothing.
C15_ClosedByKeyLength ==
  last.err # "none" =>
    /\ last.err = "ok" =>
         last.max = MaxOrNone({k \in DOMAIN last.pre : str_len(k) >= num_slaves})
    /\ (\A k \in DOMAIN last.pre : str_len(k) >= num_slaves) =>
         /\ TsOf(last.out) = sorted(DOMAIN last.pre)
         /\ join_buffer = EmptyFn
    /\ (\A k \in DOMAIN last.pre : str_len(k) < num_slaves) =>
         /\ last.out = <<>>
         /\ join_buffer = last.pre

\* the part of C15 that concerns the polls that end without an exception
C15_ClosedByKeyLengthNoRaise ==
  last.err = "ok" => C15_ClosedByKeyLength

\* C16: the lines handed to the decoder, in the order handed over, followed
\* by read_buffer are the text read from the file so far; and after a poll
\* that ended without an exception read_buffer holds no newline.
C16_LinesDelivered ==
  /\ pos <= Len(file)
  /\ Flatten(decoded) \o read_buffer = SubSeq(file, 1, pos)
  /\ last.err = "ok" => ~has_line(read_buffer)

\* a file longer than one read has been read to its end in several polls
\* and both of its lines have been handed to the decoder
C16_Witness ==
  /\ Len(file) > ReadCap
  /\ pos = Len(file)
  /\ Len(decoded) = 2
  /\ read_buffer = <<>>
  /\ last.err = "ok"

\* C17: a snapshot whose ingestion fails leaves nothing in join_buffer: every
\* snapshot held in join_buffer, and in the buffer the last poll drained
\* from, is one that fill_join_buffer processes without an exception.
C17_RejectedLeavesNothing ==
  \A jb \in {join_buffer, last.pre} :
    \A T \in DOMAIN jb :
      \A w \in DOMAIN jb[T] : fill_join_buffer(EmptyFn, jb[T][w]).err = "ok"

\* the complete lines of a text, in order
RECURSIVE LinesOf(_)
LinesOf(text) ==
  IF ~has_line(text) THEN <<>>
  ELSE <<first_line(text)>> \o LinesOf(rest_of(text, first_line(text)))

\* C18: the lines handed to the decoder are the complete lines of the text
\* read so far that are no longer in read_buffer, each once and in order,
\* the ones that raised included; after a poll that ended without an
\* exception every complete line read so far has been handed over; and
\* while nothing has been drained the snapshots behind a failing line are
\* in join_buffer.
C18_FailingLineConsumed ==
  /\ Len(read_buffer) <= pos
  /\ decoded = LinesOf(SubSeq(file, 1, pos - Len(read_buffer)))
  /\ last.err = "ok" => decoded = LinesOf(SubSeq(file, 1, pos))
  /\ (/\ emitted = <<>>
      /\ \A i \in 1..Len(Ingested(decoded)) :
           fill_join_buffer(EmptyFn, Ingested(decoded)[i]).err = "ok")
     => join_buffer = IngestAll(EmptyFn, Ingested(decoded))

\* a poll has raised on a line that is not JSON, the line is gone from
\* read_buffer, and the line that followed it in the same read waits there
C18_Witness ==
  /\ last.err = "ValueError"
  /\ decoded = <<Text("x")>>
  /\ read_buffer = Text("2")

\* a later poll has ingested the line behind the failing one
C18_WitnessLater ==
  /\ decoded = <<Text("x"), Text("2")>>
  /\ raised = 1
  /\ last.err = "ok"
  /\ join_buffer = (100 :> ("B" :> "2"))

\* the sum of the per-second counts that the stats items i..Len of snapshot d
\* report for second T
RECURSIVE AllSum(_, _, _)
AllSum(d, T, i) ==
  IF i > Len(Snap[d].stats) THEN 0
  ELSE LET item == Snap[d].stats[i]
       IN (IF T \in DOMAIN item.rps THEN item.rps[T] ELSE 0) + AllSum(d, T, i + 1)

\* C19: point_from_locust does not raise ZeroDivisionError for a snapshot
\* held in the buffer; for a label whose num_requests is 0 the point holds
\* the initial response-time sum together with the label's per-second count
\* and the snapshot's user_count, and the count is part of the sample count
\* of the combined label ''.
C19_NoDivisionByZero ==
  \A T \in DOMAIN last.pre :
    \A w \in DOMAIN last.pre[T] :
      LET d == last.pre[T][w]
          p == point_from_locust(T, w, d)
      IN /\ p.err # "ZeroDivisionError"
         /\ p.err = "ok" =>
              /\ p.kpis[""].samples = AllSum(d, T, 1)
              /\ \A l \in DOMAIN p.kpis :
                   \A i \in ItemsFor(d, l, T) :
                     Snap[d].stats[i].num_requests = 0 =>
                       /\ p.kpis[l].sum_rt = KPISet.sum_rt
                       /\ p.kpis[l].samples = Snap[d].stats[i].rps[T]
                       /\ p.kpis[l].conc = Snap[d].user_count

\* a poll has emitted the point of a second held for worker B alone, whose
\* label 'a' has num_requests 0: count 3, no response time
C19_Witness ==
  \E i \in 1..Len(last.out) :
    /\ last.pre[last.out[i].ts] = ("B" :> "2")
    /\ Snap["2"].stats[1].num_requests = 0
    /\ last.out[i].kpis["a"].samples = 3
    /\ last.out[i].kpis["a"].sum_rt = KPISet.sum_rt
    /\ last.out[i].kpis[""].samples = 3

====
